---- MODULE Spec2Model ----
(***************************************************************************)
(* Model of scripts/bmc_techsupport.py: one run of the process, from the   *)
(* parsing of the command line to the exit of the interpreter.             *)
(*                                                                         *)
(* Python values are tagged records: a str is [type |-> "str", val |-> v], *)
(* None is [type |-> "NoneType"].  A task identifier's val is a TLA+       *)
(* string; a path's val is a sequence of one-character strings, so that    *)
(* os.path.dirname / os.path.basename are computed character by character. *)
(***************************************************************************)
EXTENDS Integers, Sequences, FiniteSets, TLC

\* ---------------------------------------------------------------- bounds
MaxPathLen == 3
MaxRet == 2

\* ------------------------------------------------------- program constants
timeout == 360
DurationLimit == 120

\* ------------------------------------------------------------ Python values
PyNone == [type |-> "NoneType"]
Str(v) == [type |-> "str", val |-> v]

INVALID_TASK_ID == Str("-1")

\* f'{task_id}': str() of the value
Format(v) == IF v.type = "str" THEN v.val ELSE "None"

\* ------------------------------------------------------------------ inputs
PathChars == {"/", "a"}
PathStrings == UNION {[1..n -> PathChars] : n \in 0..MaxPathLen}
PathArgs == {PyNone} \cup {Str(p) : p \in PathStrings}
TaskArgs == {PyNone, Str("-1"), Str("0"), Str("17")}
ModeArgs == {PyNone, Str("t"), Str("c"), Str("x")}

\* outcomes of the external platform layer
Rets == 0..MaxRet
ReturnedTaskIds == {PyNone, Str("-1"), Str("17")}
StartDumpOutcomes ==
    {[kind |-> "raise"]} \cup
    {[kind |-> "return", ret |-> r, task_id |-> t] : r \in Rets, t \in ReturnedTaskIds}
FetchDumpOutcomes ==
    {[kind |-> "raise"]} \cup {[kind |-> "return", ret |-> r] : r \in Rets}
Durations == {0, DurationLimit - 1, DurationLimit, DurationLimit + 1, timeout, timeout + 1}
BmcValues == {"bmc", "None"}

\* ------------------------------------------------------------ os.path.split
\* p.rfind('/') + 1: the length of the prefix that ends at the last slash
RECURSIVE rfind_sep(_, _)
rfind_sep(p, i) ==
    IF i = 0 THEN 0
    ELSE IF p[i] = "/" THEN i ELSE rfind_sep(p, i - 1)

RECURSIVE rstrip_sep(_)
rstrip_sep(h) ==
    IF h = <<>> THEN h
    ELSE IF h[Len(h)] = "/" THEN rstrip_sep(SubSeq(h, 1, Len(h) - 1)) ELSE h

AllSep(h) == \A i \in 1..Len(h) : h[i] = "/"

dirname(p) ==
    LET head == SubSeq(p, 1, rfind_sep(p, Len(p)))
    IN  IF head # <<>> /\ ~AllSep(head) THEN rstrip_sep(head) ELSE head

basename(p) == SubSeq(p, rfind_sep(p, Len(p)) + 1, Len(p))

parse_file_path(filepath) == <<dirname(filepath), basename(filepath)>>

\* ---------------------------------------------------------------- logging
Info(m) == [sev |-> "LOG_INFO", msg |-> m]
Err(m) == [sev |-> "LOG_ERR", msg |-> m]

\* --------------------------------------------------- trigger_debug_dump
\* the value of the local task_id when the finally clause prints it
trigger_task_id_lost(o) == INVALID_TASK_ID
trigger_task_id(o) ==
    IF o.kind = "raise" THEN INVALID_TASK_ID ELSE o.task_id

trigger_log(o) ==
    <<Info("Triggering")>> \o
    (IF o.kind = "raise" THEN <<Err("FailedToTrigger")>>
     ELSE IF o.ret # 0 THEN <<Err("FailToTrigger"), Err("FailedToTrigger")>>
     ELSE <<Info("TriggerOK")>>)

\* ------------------------------------------------ extract_debug_dump_file
InvalidFilepath_and(dir, fn) == dir = <<>> /\ fn = <<>>
InvalidFilepath(dir, fn) == dir = <<>> \/ fn = <<>>

\* the validation of lines 87-92 raises (a TypeError of os.path on None included)
Rejected(tid, fp) ==
    \/ fp.type # "str"
    \/ InvalidFilepath(parse_file_path(fp.val)[1], parse_file_path(fp.val)[2])
    \/ tid = INVALID_TASK_ID

fetch_args_swapped(tid, fp) ==
    [task_id |-> tid, filename |-> parse_file_path(fp.val)[1],
     path |-> parse_file_path(fp.val)[2], timeout |-> timeout]
fetch_args(tid, fp) ==
    [task_id |-> tid, filename |-> parse_file_path(fp.val)[2],
     path |-> parse_file_path(fp.val)[1], timeout |-> timeout]

DurationExceeds_ge(d) == d >= DurationLimit
DurationExceeds(d) == d > DurationLimit

\* the log lines written after the call of get_bmc_debug_log_dump
fetch_log_always_finished(o, d) ==
    IF o.kind = "raise" THEN <<Err("FailedToCollect")>>
    ELSE <<Info("Takes"), Info("Finished")>>
fetch_log(o, d) ==
    IF o.kind = "raise" THEN <<Err("FailedToCollect")>>
    ELSE IF o.ret # 0 THEN <<Err("NotFinishWithin"), Err("FailedToCollect")>>
    ELSE <<Info("Takes")>> \o
         (IF DurationExceeds(d) THEN <<Err("Exceeds120")>> ELSE <<>>) \o
         <<Info("Finished")>>

\* ------------------------------------------------------------------- state
VARIABLES pc, mode, task_id, filepath, bmc, called, startResult, fetchResult,
          duration, fetchCalls, stdout, log, exitCode

vars == <<pc, mode, task_id, filepath, bmc, called, startResult, fetchResult,
          duration, fetchCalls, stdout, log, exitCode>>

NoResult == [kind |-> "none"]
\* the exit status: <<>> while the process runs, <<n>> once it has exited with n
NoStatus == <<>>

Init ==
    /\ pc = "start"
    /\ mode = PyNone
    /\ task_id = PyNone
    /\ filepath = PyNone
    /\ bmc = "unset"
    /\ called = "none"
    /\ startResult = NoResult
    /\ fetchResult = NoResult
    /\ duration = 0
    /\ fetchCalls = <<>>
    /\ stdout = <<>>
    /\ log = <<>>
    /\ exitCode = NoStatus

\* __main__: argparse; -m is required and restricted to 'c' and 't'
ParseArgs ==
    /\ pc = "start"
    /\ \E m \in ModeArgs, t \in TaskArgs, p \in PathArgs :
          IF m \in {Str("c"), Str("t")}
          THEN /\ mode' = m
               /\ task_id' = t
               /\ filepath' = p
               /\ pc' = "main"
               /\ exitCode' = exitCode
          ELSE /\ pc' = "exited"
               /\ exitCode' = <<2>>
               /\ UNCHANGED <<mode, task_id, filepath>>
    /\ UNCHANGED <<bmc, called, startResult, fetchResult, duration,
                   fetchCalls, stdout, log>>

\* BMCDebugDumpExtractor.__init__, called by main outside any try
Construct ==
    /\ pc = "main"
    /\ \/ \E b \in BmcValues :
             /\ bmc' = b
             /\ pc' = "dispatch"
             /\ exitCode' = exitCode
       \/ /\ pc' = "exited"          \* the platform layer raises: traceback, status 1
          /\ exitCode' = <<1>>
          /\ bmc' = bmc
    /\ UNCHANGED <<mode, task_id, filepath, called, startResult, fetchResult,
                   duration, fetchCalls, stdout, log>>

trigger_debug_dump ==
    /\ pc = "dispatch"
    /\ mode = Str("t")
    /\ \E o \in StartDumpOutcomes :
          /\ bmc = "None" => o.kind = "raise"       \* AttributeError
          /\ startResult' = o
          /\ log' = log \o trigger_log(o)
          /\ stdout' = Append(stdout, Format(trigger_task_id(o)))
    /\ called' = "trigger"
    /\ pc' = "returned"
    /\ UNCHANGED <<mode, task_id, filepath, bmc, fetchResult, duration,
                   fetchCalls, exitCode>>

extract_debug_dump_file ==
    /\ pc = "dispatch"
    /\ mode = Str("c")
    /\ called' = "extract"
    /\ pc' = "returned"
    /\ IF Rejected(task_id, filepath)
       THEN /\ log' = Append(log, Err("FailedToCollect"))
            /\ UNCHANGED <<fetchResult, duration, fetchCalls>>
       ELSE IF bmc = "None"
       THEN /\ log' = log \o <<Info("Collecting"), Err("FailedToCollect")>>
            /\ UNCHANGED <<fetchResult, duration, fetchCalls>>
       ELSE \E o \in FetchDumpOutcomes, d \in Durations :
            /\ fetchCalls' = Append(fetchCalls, fetch_args(task_id, filepath))
            /\ fetchResult' = o
            /\ duration' = IF o.kind = "raise" THEN duration ELSE d
            /\ log' = log \o <<Info("Collecting")>> \o fetch_log(o, d)
    /\ UNCHANGED <<mode, task_id, filepath, bmc, startResult, stdout, exitCode>>

\* main returns and the interpreter exits
Exit ==
    /\ pc = "returned"
    /\ pc' = "exited"
    /\ exitCode' = <<0>>
    /\ UNCHANGED <<mode, task_id, filepath, bmc, called, startResult,
                   fetchResult, duration, fetchCalls, stdout, log>>

Next ==
    \/ ParseArgs
    \/ Construct
    \/ trigger_debug_dump
    \/ extract_debug_dump_file
    \/ Exit

Spec == Init /\ [][Next]_vars

\* ----------------------------------------------------------------- helpers
Logged(m) == \E i \in 1..Len(log) : log[i].msg = m
LoggedErr == \E i \in 1..Len(log) : log[i].sev = "LOG_ERR"
TriggerDone == called = "trigger"
ExtractDone == called = "extract"
StartFailed ==
    \/ startResult.kind = "raise"
    \/ startResult.kind = "return" /\ startResult.ret # 0
FetchReturnedZero ==
    fetchCalls # <<>> /\ fetchResult.kind = "return" /\ fetchResult.ret = 0

\* ------------------------------------------------------------------ claims

\* C1: in trigger mode, whenever the start-dump call fails (non-zero status,
\* whatever task id comes with it) or raises, the value printed to standard
\* output is the sentinel '-1'.
C1_FailurePrintsSentinel ==
    (TriggerDone /\ StartFailed) => stdout = <<INVALID_TASK_ID.val>>

\* C2: in trigger mode, whenever the start-dump call returns status 0 with a
\* task identifier, standard output holds exactly that identifier.
C2_SuccessPrintsTaskId ==
    (TriggerDone /\ startResult.kind = "return" /\ startResult.ret = 0
       /\ startResult.task_id.type = "str")
    => stdout = <<startResult.task_id.val>>
C2_Witness ==
    /\ TriggerDone
    /\ startResult.kind = "return"
    /\ startResult.ret = 0
    /\ startResult.task_id = Str("17")
    /\ stdout = <<"17">>

\* C3: in collect mode, when the task identifier is the sentinel '-1' or is
\* absent (no -t option), fetch-dump is never called, whatever the path.
C3_SentinelOrAbsentNeverFetches ==
    (mode = Str("c") /\ task_id \in {INVALID_TASK_ID, PyNone}) => fetchCalls = <<>>

\* C4: in collect mode, a destination path that splits into an empty
\* directory or an empty filename is rejected: fetch-dump is not called and
\* the failure is logged, whatever the task identifier.
C4_EmptyComponentRejected ==
    (ExtractDone /\ filepath.type = "str"
       /\ (dirname(filepath.val) = <<>> \/ basename(filepath.val) = <<>>))
    => (fetchCalls = <<>> /\ Logged("FailedToCollect"))
C4_Witness ==
    /\ ExtractDone
    /\ bmc = "bmc"
    /\ task_id = Str("17")
    /\ filepath = Str(<<"a", "/">>)
    /\ dirname(filepath.val) = <<"a">>
    /\ basename(filepath.val) = <<>>
    /\ fetchCalls = <<>>
    /\ Logged("FailedToCollect")

\* C5: the process exit code is always 0, for every mode and combination of
\* arguments and whatever the platform layer returns or raises.
C5_ExitCodeAlwaysZero ==
    pc = "exited" => exitCode = <<0>>

\* C6: every call of fetch-dump passes the same fixed timeout constant,
\* whatever the task identifier and path, and passes the directory and the
\* filename obtained by splitting the destination path.
C6_FetchArguments ==
    \A i \in 1..Len(fetchCalls) :
        /\ fetchCalls[i].timeout = timeout
        /\ fetchCalls[i].path = dirname(filepath.val)
        /\ fetchCalls[i].filename = basename(filepath.val)
        /\ fetchCalls[i].task_id = task_id
C6_Witness ==
    /\ Len(fetchCalls) = 1
    /\ filepath = Str(<<"/", "/", "a">>)
    /\ fetchCalls[1].path = <<"/", "/">>
    /\ fetchCalls[1].filename = <<"a">>
    /\ fetchCalls[1].timeout = 360

\* C7: the timeout that bounds the fetch-dump call in collect mode is 120
\* seconds.
C7_FetchTimeoutIs120 ==
    \A i \in 1..Len(fetchCalls) : fetchCalls[i].timeout = 120

\* C8: every trigger-mode run prints exactly one task-identifier line and
\* every collect-mode run prints nothing to standard output.
C8_StdoutOnlyInTriggerMode ==
    pc = "exited" =>
        /\ mode = Str("t") => Len(stdout) = 1
        /\ mode = Str("c") => stdout = <<>>

\* C9: extract_debug_dump_file logs its outcome and never raises: 'Finished'
\* is logged iff fetch-dump was called and returned 0; otherwise (rejected,
\* non-zero status, exception) 'Failed to collect' is logged; in every case
\* the method returns normally to main, which exits with status 0.
C9_OutcomeLoggedNeverRaised ==
    ExtractDone =>
        /\ Logged("Finished") <=> FetchReturnedZero
        /\ ~FetchReturnedZero => Logged("FailedToCollect")
        /\ pc \in {"returned", "exited"}
        /\ pc = "exited" => exitCode = <<0>>
C9_Witness ==
    /\ ExtractDone
    /\ pc = "exited"
    /\ fetchCalls # <<>>
    /\ fetchResult.kind = "raise"
    /\ Logged("FailedToCollect")
    /\ ~Logged("Finished")

\* C10: when fetch-dump returns 0 the run is a success whatever its duration:
\* above 120 seconds an extra error log 'exceeds 120 seconds' is written, yet
\* 'Finished' is logged and 'Failed to collect' is not; at 120 seconds or
\* less no error-severity log is written at all.
C10_SuccessWhateverDuration ==
    (ExtractDone /\ FetchReturnedZero) =>
        /\ Logged("Finished")
        /\ ~Logged("FailedToCollect")
        /\ duration > 120 => Logged("Exceeds120")
        /\ duration <= 120 => ~LoggedErr
C10_Witness ==
    /\ ExtractDone
    /\ FetchReturnedZero
    /\ duration = 121
    /\ Logged("Exceeds120")
    /\ Logged("Finished")

====
